---- MODULE Spec2Model ----
(***************************************************************************)
(* Custom playlist cover images: server/nativeapi/playlist_image.go.       *)
(*                                                                         *)
(* Strings are sequences of one-character strings, so that path joining,   *)
(* cleaning and the prefix test of playlistImagePath are computed on       *)
(* characters, as the code computes them.  The empty string is << >>.      *)
(***************************************************************************)
EXTENDS Integers, Sequences, FiniteSets, TLC

VARIABLES
    dataFolder,  \* conf.Server.DataFolder
    repo,        \* the playlist table: id -> [OwnerID, ImagePath]
    dirs,        \* the directories that exist on disk
    files,       \* the regular files that exist on disk: path -> content
    req,         \* one record per worker serving requests: the locals and the
                 \* position of the handler it runs
    last,        \* summary of the operation that completed most recently
    pathIn,      \* playlistImagePath taken alone: its argument
    pathOut,     \* playlistImagePath taken alone: its result
    boundsIn,    \* the resize step taken alone: the bounds of the decoded image
    boundsOut,   \* the resize step taken alone: the bounds of the image saved
    ui           \* the PlaylistDetails component of the client: its uploading
                 \* state, its file dialog and the uploads it has in flight

vars == <<dataFolder, repo, dirs, files, req, last, pathIn, pathOut,
          boundsIn, boundsOut, ui>>

----------------------------------------------------------------------------
(* Bounds of the model.                                                    *)

\* longest playlist id enumerated character by character
MaxIdLen == 4

\* the number of requests handled at the same time
NumReqs == 2

----------------------------------------------------------------------------
(* Constants of the program.                                               *)

maxUploadSize == 5 * (2 ^ 20)

maxImageDimension == 1200

playlistImageDir ==
    <<"p", "l", "a", "y", "l", "i", "s", "t", "-", "i", "m", "a", "g", "e", "s">>

coverName == <<"c", "o", "v", "e", "r", ".", "j", "p", "g">>

Separator == "/"

----------------------------------------------------------------------------
(* strings.HasPrefix, filepath.Clean and filepath.Join (Unix).             *)

HasPrefix(s, prefix) ==
    /\ Len(s) >= Len(prefix)
    /\ SubSeq(s, 1, Len(prefix)) = prefix

\* the elements of s between separators, empty elements included
RECURSIVE Elements(_, _, _)
Elements(s, i, cur) ==
    IF i > Len(s) THEN <<cur>>
    ELSE IF s[i] = Separator THEN <<cur>> \o Elements(s, i + 1, << >>)
    ELSE Elements(s, i + 1, Append(cur, s[i]))

Dot == <<".">>
DotDot == <<".", ".">>

IsRooted(s) == Len(s) > 0 /\ s[1] = Separator

\* Clean's element rules: drop empty and "." elements, let ".." cancel the
\* element before it, drop ".." at the root, keep leading ".." otherwise
RECURSIVE CleanElements(_, _, _, _)
CleanElements(elems, i, out, rooted) ==
    IF i > Len(elems) THEN out
    ELSE LET e == elems[i] IN
         IF e = << >> \/ e = Dot THEN CleanElements(elems, i + 1, out, rooted)
         ELSE IF e = DotDot THEN
              IF Len(out) > 0 /\ out[Len(out)] /= DotDot
              THEN CleanElements(elems, i + 1, SubSeq(out, 1, Len(out) - 1), rooted)
              ELSE IF rooted THEN CleanElements(elems, i + 1, out, rooted)
              ELSE CleanElements(elems, i + 1, Append(out, e), rooted)
         ELSE CleanElements(elems, i + 1, Append(out, e), rooted)

RECURSIVE JoinElements(_, _)
JoinElements(elems, i) ==
    IF i > Len(elems) THEN << >>
    ELSE IF i = Len(elems) THEN elems[i]
    ELSE elems[i] \o <<Separator>> \o JoinElements(elems, i + 1)

Clean(path) ==
    LET rooted == IsRooted(path)
        out == CleanElements(Elements(path, 1, << >>), 1, << >>, rooted)
        body == JoinElements(out, 1)
    IN  IF rooted THEN <<Separator>> \o body
        ELSE IF body = << >> THEN Dot
        ELSE body

\* filepath.Join: from the first non-empty element on, the elements are
\* joined with the separator and the result is cleaned; "" if all are empty
RECURSIVE JoinFrom(_, _)
JoinFrom(elem, i) ==
    IF i > Len(elem) THEN << >>
    ELSE IF elem[i] /= << >> THEN Clean(JoinElements(elem, i))
    ELSE JoinFrom(elem, i + 1)

Join(elem) == JoinFrom(elem, 1)

----------------------------------------------------------------------------
(* playlistImagePath                                                       *)

ImageBase == Clean(Join(<<dataFolder, playlistImageDir>>))

\* slip: the prefix test without the separator after the base
playlistImagePathNoSeparator(playlistID) ==
    LET p == Clean(Join(<<dataFolder, playlistImageDir, playlistID>>))
        base == ImageBase
    IN  IF ~HasPrefix(p, base)
        THEN [path |-> << >>, ok |-> FALSE]
        ELSE [path |-> p, ok |-> TRUE]

\* slip: the prefix test against the data folder instead of the base
playlistImagePathUnderDataFolder(playlistID) ==
    LET p == Clean(Join(<<dataFolder, playlistImageDir, playlistID>>))
        base == Clean(dataFolder)
    IN  IF ~HasPrefix(p, base \o <<Separator>>)
        THEN [path |-> << >>, ok |-> FALSE]
        ELSE [path |-> p, ok |-> TRUE]

\* slip: the id left out of the joined path
playlistImagePathReturnsBase(playlistID) == [path |-> ImageBase, ok |-> TRUE]

playlistImagePath(playlistID) ==
    LET p == Clean(Join(<<dataFolder, playlistImageDir, playlistID>>))
        base == ImageBase
    IN  IF ~HasPrefix(p, base \o <<Separator>>)
        THEN [path |-> << >>, ok |-> FALSE]
        ELSE [path |-> p, ok |-> TRUE]

----------------------------------------------------------------------------
(* The filesystem: os.MkdirAll, imaging.Save, os.Remove, os.RemoveAll.     *)

\* path is dir itself or lies below it
Within(path, dir) == path = dir \/ HasPrefix(path, dir \o <<Separator>>)

\* dir and every directory above it
AncestorsOrSelf(dir) ==
    { SubSeq(dir, 1, k) :
        k \in { j \in 1..Len(dir) : j = Len(dir) \/ dir[j + 1] = Separator } }
    \cup (IF IsRooted(dir) THEN {<<Separator>>} ELSE {})

\* os.MkdirAll cannot succeed when a regular file is in the way
MkdirAllBlocked(dir) == \E a \in AncestorsOrSelf(dir) : a \in DOMAIN files

\* os.MkdirAll(dir) succeeded: dir and its missing parents exist
MkdirAllDirs(dir) == dirs \cup AncestorsOrSelf(dir)

\* os.MkdirAll(dir) failed: nothing, or only the parents, were created
MkdirAllFailedDirs(dir) == {dirs, dirs \cup (AncestorsOrSelf(dir) \ {dir})}

Restrict(f, S) == [x \in S |-> f[x]]

\* slip: an existing file is kept instead of overwritten
SaveFilesKeepExisting(destPath, img) ==
    [x \in DOMAIN files \cup {destPath} |->
        IF x \in DOMAIN files THEN files[x]
        ELSE [complete |-> TRUE, w |-> img.w, h |-> img.h]]

\* imaging.Save(img, destPath) succeeded: the file is created or overwritten
SaveFiles(destPath, img) ==
    [x \in DOMAIN files \cup {destPath} |->
        IF x = destPath THEN [complete |-> TRUE, w |-> img.w, h |-> img.h]
        ELSE files[x]]

\* imaging.Save failed: the file was not opened, or it was opened (created,
\* or truncated if it existed) and the encoding into it failed
SaveFailedFiles(destPath, img) ==
    {files,
     [x \in DOMAIN files \cup {destPath} |->
        IF x = destPath THEN [complete |-> FALSE, w |-> 0, h |-> 0]
        ELSE files[x]]}

\* slip: the cleanup removes nothing
CleanupFilesNothing(destPath) == files

\* os.Remove(destPath) of the upload's cleanup: the file alone is removed
CleanupFiles(destPath) == Restrict(files, DOMAIN files \ {destPath})

\* slip: what is below dir is removed and dir itself is left
RemoveAllDirsKeepsDir(dir) == {d \in dirs : ~Within(d, dir) \/ d = dir}

\* slip: every file on disk is removed
RemoveAllFilesEverywhere(dir) == << >>

\* os.RemoveAll(dir) succeeded: dir and everything below it are gone
RemoveAllDirs(dir) == {d \in dirs : ~Within(d, dir)}
RemoveAllFiles(dir) == Restrict(files, {f \in DOMAIN files : ~Within(f, dir)})

----------------------------------------------------------------------------
(* Requests.                                                               *)

Reqs == DOMAIN req

p1 == <<"p", "1">>
unknownID == <<"z">>

\* the ids of the playlists of the table; ".." is one no path is derived for
PlaylistIDs == {p1, DotDot}

\* the ids a request may name
RequestIDs == PlaylistIDs \cup {unknownID}

OwnerOf(id) == "u1"

\* request.UserFrom(ctx): no user, the owner, another user, an administrator
Users ==
    {[ok |-> FALSE, ID |-> "", IsAdmin |-> FALSE],
     [ok |-> TRUE, ID |-> "u1", IsAdmin |-> FALSE],
     [ok |-> TRUE, ID |-> "u2", IsAdmin |-> FALSE],
     [ok |-> TRUE, ID |-> "u3", IsAdmin |-> TRUE]}

\* request bodies: the length of the "image" part, the length of the
\* multipart framing around it, whether the part is there, whether it
\* decodes, and the bounds of the decoded image
Bodies ==
    {[fileLen |-> 1000, framing |-> 200, hasFile |-> TRUE, decodes |-> TRUE,
      w |-> 2000, h |-> 1000],
     [fileLen |-> 1000, framing |-> 200, hasFile |-> TRUE, decodes |-> TRUE,
      w |-> 640, h |-> 480],
     [fileLen |-> 1000, framing |-> 200, hasFile |-> TRUE, decodes |-> FALSE,
      w |-> 0, h |-> 0],
     [fileLen |-> 0, framing |-> 200, hasFile |-> FALSE, decodes |-> FALSE,
      w |-> 0, h |-> 0],
     [fileLen |-> maxUploadSize + 1, framing |-> 200, hasFile |-> TRUE,
      decodes |-> TRUE, w |-> 640, h |-> 480],
     [fileLen |-> maxUploadSize, framing |-> 200, hasFile |-> TRUE,
      decodes |-> TRUE, w |-> 640, h |-> 480]}

NoBody ==
    [fileLen |-> 0, framing |-> 0, hasFile |-> FALSE, decodes |-> FALSE,
     w |-> 0, h |-> 0]

\* what the handler wrote to the response; json.Marshal of a struct with
\* one string field returns no error, so success always writes the id
HttpError(status, msg) == [status |-> status, msg |-> msg]
Written == [status |-> 200, msg |-> "id"]
Pending == [status |-> 0, msg |-> ""]

NoPlaylist == [OwnerID |-> "", ImagePath |-> << >>]

NoOperation == [op |-> "none", playlistID |-> << >>, status |-> 0]

IdleReq ==
    [pc |-> "idle", op |-> "none", playlistID |-> << >>,
     user |-> [ok |-> FALSE, ID |-> "", IsAdmin |-> FALSE], body |-> NoBody,
     pls |-> NoPlaylist, img |-> [w |-> 0, h |-> 0],
     dir |-> << >>, destPath |-> << >>,
     result |-> Pending, calls |-> {}, errs |-> {},
     dirs0 |-> {}, files0 |-> << >>, repo0 |-> << >>, afterRemove |-> FALSE]

\* the operation completed last was a Remove of this playlist that succeeded
AfterRemove(playlistID) ==
    last = [op |-> "Remove", playlistID |-> playlistID, status |-> 200]

\* a worker takes a request: the state at its start is remembered, and
\* whether the request comes right after a successful Remove of its playlist
NewReq(op, playlistID, user, body) ==
    [IdleReq EXCEPT !.op = op, !.playlistID = playlistID, !.user = user,
                    !.body = body, !.dirs0 = dirs, !.files0 = files,
                    !.repo0 = repo, !.afterRemove = AfterRemove(playlistID)]

Summary(q) == [op |-> q.op, playlistID |-> q.playlistID, status |-> q.result.status]

\* the handler returns after writing result
Return(q, result) == [q EXCEPT !.pc = "done", !.result = result]

----------------------------------------------------------------------------
(* The checks both handlers make before they touch the disk.               *)

\* slip: the negation of IsAdmin left out
AuthorizedAdminSlip(pls, user) == ~(pls.OwnerID /= user.ID /\ user.IsAdmin)

\* the handler goes on unless the user is neither the owner nor an admin
Authorized(pls, user) == ~(pls.OwnerID /= user.ID /\ ~user.IsAdmin)

\* handleFileChange of the client: the file is not sent when it is larger
\* than 5 MiB
ClientRejectsSize(body) == body.fileLen > 5 * 1024 * 1024

\* http.MaxBytesReader and ParseMultipartForm: the whole body is limited
BodyTooLarge(body) == body.fileLen + body.framing > maxUploadSize

\* slip: the error of image.Decode not looked at
DecodesAlways(body) == TRUE

\* image.Decode(file) returned no error
Decodes(body) == body.decodes

\* imaging.Fit: the bounds of the image fitted into maxW x maxH, the aspect
\* ratio kept; a side that comes out as 0 is made 1
\* slip: the image scaled by its width whatever its shape
FitWidthOnly(w, h, maxW, maxH) ==
    IF w <= maxW /\ h <= maxH THEN [w |-> w, h |-> h]
    ELSE [w |-> maxW, h |-> (maxW * h) \div w]

Fit(w, h, maxW, maxH) ==
    IF w <= maxW /\ h <= maxH THEN [w |-> w, h |-> h]
    ELSE IF w * maxH > h * maxW
         THEN LET newH == (maxW * h) \div w
              IN  [w |-> maxW, h |-> IF newH = 0 THEN 1 ELSE newH]
         ELSE LET newW == (maxH * w) \div h
              IN  [w |-> IF newW = 0 THEN 1 ELSE newW, h |-> maxH]

\* the resize step of the upload
Resized(body) ==
    IF body.w > maxImageDimension \/ body.h > maxImageDimension
    THEN Fit(body.w, body.h, maxImageDimension, maxImageDimension)
    ELSE [w |-> body.w, h |-> body.h]

\* Get of a playlist of the table may fail with an error other than ErrNotFound
GetFailures(playlistID) == IF playlistID \in DOMAIN repo THEN BOOLEAN ELSE {FALSE}

\* pls, err := ds.Playlist(ctx).Get(playlistID): pls is set when err is nil
Fetched(q, getFails) ==
    IF q.playlistID \in DOMAIN repo /\ ~getFails
    THEN [q EXCEPT !.pls = repo[q.playlistID]]
    ELSE q

\* the errors of Get, request.UserFrom and the permission check, common to
\* both handlers: the response that ends the request there, or Pending
Admission(q, getFails) ==
    IF q.playlistID \notin DOMAIN repo
    THEN HttpError(404, "playlist not found")
    ELSE IF getFails THEN HttpError(500, "internal server error")
    ELSE IF ~q.user.ok THEN HttpError(401, "unauthorized")
    ELSE IF ~Authorized(repo[q.playlistID], q.user)
    THEN HttpError(403, "you do not have permission to modify this playlist")
    ELSE Pending

\* slip: the check of an empty ImagePath left out
HasImageAlways(pls) == TRUE

\* deletePlaylistImage goes on only if the playlist has a custom image
HasImage(pls) == pls.ImagePath /= << >>

\* slip: the path resolved before the body is read
UploadChecksResolveFirst(q, getFails) ==
    LET admission == Admission(q, getFails)
        resolved == playlistImagePath(q.playlistID)
        q1 == Fetched(q, getFails)
    IN  IF admission /= Pending THEN Return(q1, admission)
        ELSE IF ~resolved.ok
        THEN Return(q1, HttpError(400, "invalid playlist id"))
        ELSE IF BodyTooLarge(q.body)
        THEN Return(q1, HttpError(400, "file too large (max 5MB)"))
        ELSE IF ~q.body.hasFile
        THEN Return(q1, HttpError(400, "missing or invalid image file"))
        ELSE IF ~Decodes(q.body)
        THEN Return(q1, HttpError(400, "invalid image file"))
        ELSE [q1 EXCEPT !.img = Resized(q.body), !.dir = resolved.path,
                        !.pc = "mkdir"]

\* uploadPlaylistImage up to the first filesystem call
UploadChecks(q, getFails) ==
    LET admission == Admission(q, getFails)
        resolved == playlistImagePath(q.playlistID)
        q1 == Fetched(q, getFails)
    IN  IF admission /= Pending THEN Return(q1, admission)
        ELSE IF BodyTooLarge(q.body)
        THEN Return(q1, HttpError(400, "file too large (max 5MB)"))
        ELSE IF ~q.body.hasFile
        THEN Return(q1, HttpError(400, "missing or invalid image file"))
        ELSE IF ~Decodes(q.body)
        THEN Return(q1, HttpError(400, "invalid image file"))
        ELSE IF ~resolved.ok
        THEN Return([q1 EXCEPT !.img = Resized(q.body)],
                    HttpError(400, "invalid playlist id"))
        ELSE [q1 EXCEPT !.img = Resized(q.body), !.dir = resolved.path,
                        !.pc = "mkdir"]

\* slip: the check of an empty ImagePath made before the permission check
DeleteChecksImageFirst(q, getFails) ==
    LET admission == Admission(q, getFails)
        resolved == playlistImagePath(q.playlistID)
        q1 == Fetched(q, getFails)
    IN  IF q1.pls /= NoPlaylist /\ ~HasImage(q1.pls)
        THEN Return(q1, HttpError(404, "playlist has no custom image"))
        ELSE IF admission /= Pending THEN Return(q1, admission)
        ELSE IF resolved.ok
        THEN [q1 EXCEPT !.dir = resolved.path, !.pc = "removeAll"]
        ELSE [q1 EXCEPT !.pc = "clear"]

\* deletePlaylistImage up to the first filesystem call
DeleteChecks(q, getFails) ==
    LET admission == Admission(q, getFails)
        resolved == playlistImagePath(q.playlistID)
        q1 == Fetched(q, getFails)
    IN  IF admission /= Pending THEN Return(q1, admission)
        ELSE IF ~HasImage(q1.pls)
        THEN Return(q1, HttpError(404, "playlist has no custom image"))
        ELSE IF resolved.ok
        THEN [q1 EXCEPT !.dir = resolved.path, !.pc = "removeAll"]
        ELSE [q1 EXCEPT !.pc = "clear"]

----------------------------------------------------------------------------
(* The steps of the handlers.  A step is one call on the playlist table or *)
(* on the filesystem together with the code up to the next such call.      *)

\* worker r moves to record q; a request that has returned is the last one
Step(r, q) ==
    /\ req' = [req EXCEPT ![r] = q]
    /\ last' = IF q.pc = "done" THEN Summary(q) ELSE last

\* the handler made the call, which returned nil or an error
Called(q, call, ok) ==
    [q EXCEPT !.calls = @ \cup {call},
              !.errs = IF ok THEN @ ELSE @ \cup {call}]

InternalError == HttpError(500, "internal server error")

\* a worker whose position is in pcs takes an upload request drawn from
\* ids, users and bodies, and runs it up to its first filesystem call
UploadBeginFrom(r, pcs, ids, users, bodies) ==
    /\ req[r].pc \in pcs
    /\ \E playlistID \in ids, user \in users, body \in bodies :
       \E getFails \in GetFailures(playlistID) :
          Step(r, UploadChecks(NewReq("Upload", playlistID, user, body), getFails))
    /\ UNCHANGED <<dataFolder, repo, dirs, files, pathIn, pathOut, boundsIn, boundsOut, ui>>

UploadBegin(r) == UploadBeginFrom(r, {"idle", "done"}, RequestIDs, Users, Bodies)

UploadMkdirAll(r) ==
    /\ req[r].pc = "mkdir"
    /\ \E ok \in (IF MkdirAllBlocked(req[r].dir) THEN {FALSE} ELSE BOOLEAN) :
          LET q == Called(req[r], "MkdirAll", ok) IN
          IF ok
          THEN /\ dirs' = MkdirAllDirs(q.dir)
               /\ Step(r, [q EXCEPT !.pc = "save"])
          ELSE /\ dirs' \in MkdirAllFailedDirs(q.dir)
               /\ Step(r, Return(q, InternalError))
    /\ UNCHANGED <<dataFolder, repo, files, pathIn, pathOut, boundsIn, boundsOut, ui>>

\* slip: the error of imaging.Save is logged and the handler goes on
AfterFailedSaveGoesOn(q) == [q EXCEPT !.pc = "put"]

\* imaging.Save returned an error: the error response, and no Put
AfterFailedSave(q) == Return(q, InternalError)

\* os.Create in imaging.Save needs the directory, and no directory at destPath
SaveBlocked(dir, destPath) == dir \notin dirs \/ destPath \in dirs

UploadSave(r) ==
    LET destPath == Join(<<req[r].dir, coverName>>)
        blocked == SaveBlocked(req[r].dir, destPath)
    IN
    /\ req[r].pc = "save"
    /\ \E ok \in (IF blocked THEN {FALSE} ELSE BOOLEAN) :
          LET q == [Called(req[r], "Save", ok) EXCEPT !.destPath = destPath] IN
          IF ok
          THEN /\ files' = SaveFiles(destPath, q.img)
               /\ Step(r, [q EXCEPT !.pc = "put"])
          ELSE /\ files' \in (IF blocked THEN {files}
                              ELSE SaveFailedFiles(destPath, q.img))
               /\ Step(r, AfterFailedSave(q))
    /\ UNCHANGED <<dataFolder, repo, dirs, pathIn, pathOut, boundsIn, boundsOut, ui>>

\* ds.Playlist(ctx).Put(pls) succeeded
PutRepo(playlistID, pls) == [repo EXCEPT ![playlistID] = pls]

\* pls.ImagePath = destPath, on the handler's copy of the record
WithImagePath(pls, destPath) == [pls EXCEPT !.ImagePath = destPath]

\* slip: the error response without the cleanup
AfterFailedPutNoCleanup(q) == Return(q, InternalError)

\* Put returned an error: the handler goes on to clean up the saved file
AfterFailedPut(q) == [q EXCEPT !.pc = "cleanup"]

UploadPut(r) ==
    /\ req[r].pc = "put"
    /\ \E ok \in BOOLEAN :
          LET q == [Called(req[r], "Put", ok) EXCEPT
                        !.pls = WithImagePath(@, req[r].destPath)]
          IN  IF ok
              THEN /\ repo' = PutRepo(q.playlistID, q.pls)
                   /\ Step(r, Return(q, Written))
              ELSE /\ repo' = repo
                   /\ Step(r, AfterFailedPut(q))
    /\ UNCHANGED <<dataFolder, dirs, files, pathIn, pathOut, boundsIn, boundsOut, ui>>

\* after a failed Put: _ = os.Remove(destPath), then the error response
UploadCleanup(r) ==
    /\ req[r].pc = "cleanup"
    /\ \E ok \in (IF req[r].destPath \in DOMAIN files THEN BOOLEAN ELSE {FALSE}) :
          /\ files' = IF ok THEN CleanupFiles(req[r].destPath) ELSE files
          /\ Step(r, Return(Called(req[r], "Remove", ok), InternalError))
    /\ UNCHANGED <<dataFolder, repo, dirs, pathIn, pathOut, boundsIn, boundsOut, ui>>

DeleteBeginFrom(r, pcs, ids, users) ==
    /\ req[r].pc \in pcs
    /\ \E playlistID \in ids, user \in users :
       \E getFails \in GetFailures(playlistID) :
          Step(r, DeleteChecks(NewReq("Remove", playlistID, user, NoBody), getFails))
    /\ UNCHANGED <<dataFolder, repo, dirs, files, pathIn, pathOut, boundsIn, boundsOut, ui>>

DeleteBegin(r) == DeleteBeginFrom(r, {"idle", "done"}, RequestIDs, Users)

\* os.RemoveAll failed: nothing was removed, or the files below dir were
\* and the directories were not
RemoveAllFailed(dir) ==
    {[dirs |-> dirs, files |-> files],
     [dirs |-> dirs, files |-> RemoveAllFiles(dir)]}

\* the error of os.RemoveAll is logged and the handler goes on
\* slip: the error of os.RemoveAll ends the request
AfterRemoveAllStrict(q, ok) ==
    IF ok THEN [q EXCEPT !.pc = "clear"] ELSE Return(q, InternalError)

\* whatever os.RemoveAll returned, the handler goes on to clear the record
AfterRemoveAll(q, ok) == [q EXCEPT !.pc = "clear"]

DeleteRemoveAll(r) ==
    /\ req[r].pc = "removeAll"
    /\ \E ok \in BOOLEAN :
          /\ IF ok
             THEN /\ dirs' = RemoveAllDirs(req[r].dir)
                  /\ files' = RemoveAllFiles(req[r].dir)
             ELSE \E fs \in RemoveAllFailed(req[r].dir) :
                     /\ dirs' = fs.dirs
                     /\ files' = fs.files
          /\ Step(r, AfterRemoveAll(Called(req[r], "RemoveAll", ok), ok))
    /\ UNCHANGED <<dataFolder, repo, pathIn, pathOut, boundsIn, boundsOut, ui>>

\* slip: the record is put back with its ImagePath
ClearedNot(pls) == pls

\* pls.ImagePath = "", on the handler's copy of the record
Cleared(pls) == [pls EXCEPT !.ImagePath = << >>]

DeletePut(r) ==
    /\ req[r].pc = "clear"
    /\ \E ok \in BOOLEAN :
          LET q == [Called(req[r], "Put", ok) EXCEPT !.pls = Cleared(@)]
          IN  IF ok
              THEN /\ repo' = PutRepo(q.playlistID, q.pls)
                   /\ Step(r, Return(q, Written))
              ELSE /\ repo' = repo
                   /\ Step(r, Return(q, InternalError))
    /\ UNCHANGED <<dataFolder, dirs, files, pathIn, pathOut, boundsIn, boundsOut, ui>>

----------------------------------------------------------------------------
(* The PlaylistDetails component of the client: the upload button, the     *)
(* hidden file input and handleFileChange. One action is one turn of the   *)
(* event loop: handleFileChange up to its await, or its continuation once  *)
(* the promise of dataProvider.uploadPlaylistImage has settled.            *)

\* e.target.files is empty
NoFile == [present |-> FALSE, type |-> << >>, fileLen |-> 0]

ImagePrefix == <<"i", "m", "a", "g", "e", "/">>

\* file.type: two image types, one with a capital letter, the word without
\* the slash, another type, none
FileTypes ==
    {ImagePrefix \o <<"p", "n", "g">>, ImagePrefix \o <<"j", "p", "e", "g">>,
     <<"I", "m", "a", "g", "e", "/", "p", "n", "g">>, <<"i", "m", "a", "g", "e">>,
     <<"t", "e", "x", "t", "/", "x">>, << >>}

\* file.size
FileSizes == {0, 1000, 5 * 1024 * 1024, 5 * 1024 * 1024 + 1}

PickedFiles ==
    {NoFile} \cup {[present |-> TRUE, type |-> t, fileLen |-> n] :
                     t \in FileTypes, n \in FileSizes}

\* record.id: not loaded yet, or the id of the playlist shown
RecordIds == {<< >>, p1}

\* useState(false) for uploading, no dialog, no request; event is what the
\* component did last, file and recordId what it did it with, and before
\* the uploading state and the requests in flight when it did
IdleUI ==
    [dialog |-> FALSE, uploading |-> FALSE, inFlight |-> 0, event |-> "none",
     file |-> NoFile, recordId |-> << >>,
     before |-> [uploading |-> FALSE, inFlight |-> 0]]

Remembered(u) == [uploading |-> u.uploading, inFlight |-> u.inFlight]

\* !file.type.startsWith('image/')
ClientRejectsType(file) == ~HasPrefix(file.type, ImagePrefix)

\* handleFileChange up to its await: the early returns, then
\* setUploading(true) and the call of dataProvider.uploadPlaylistImage
FileChanged(u, file, recordId) ==
    LET u1 == [u EXCEPT !.dialog = FALSE, !.file = file, !.recordId = recordId,
                        !.before = Remembered(u)]
    IN  IF ~file.present \/ recordId = << >>
        THEN [u1 EXCEPT !.event = "ignored"]
        ELSE IF ClientRejectsType(file)
        THEN [u1 EXCEPT !.event = "invalidImageType"]
        ELSE IF ClientRejectsSize(file)
        THEN [u1 EXCEPT !.event = "imageTooLarge"]
        ELSE [u1 EXCEPT !.uploading = TRUE, !.inFlight = @ + 1, !.event = "sent"]

\* slip: setUploading(false) at the end of the try block instead of finally
SettledResetOnSuccessOnly(u, ok) ==
    [u EXCEPT !.uploading = IF ok THEN FALSE ELSE @, !.inFlight = @ - 1,
              !.event = IF ok THEN "updated" ELSE "imageUploadError",
              !.before = Remembered(u)]

\* the continuation of handleFileChange: the notification of the try or of
\* the catch block, then setUploading(false) in finally
Settled(u, ok) ==
    [u EXCEPT !.uploading = FALSE, !.inFlight = @ - 1,
              !.event = IF ok THEN "updated" ELSE "imageUploadError",
              !.before = Remembered(u)]

\* handleUploadClick on the button, which is disabled while uploading: the
\* file dialog opens
UploadClick ==
    /\ ~ui.uploading
    /\ ~ui.dialog
    /\ ui' = [ui EXCEPT !.dialog = TRUE]
    /\ UNCHANGED <<dataFolder, repo, dirs, files, req, last, pathIn, pathOut,
                   boundsIn, boundsOut>>

\* the dialog is closed without a choice: no change event
DialogCancel ==
    /\ ui.dialog
    /\ ui' = [ui EXCEPT !.dialog = FALSE]
    /\ UNCHANGED <<dataFolder, repo, dirs, files, req, last, pathIn, pathOut,
                   boundsIn, boundsOut>>

\* onChange of the file input
FileChange ==
    /\ ui.dialog
    /\ \E file \in PickedFiles, recordId \in RecordIds :
          ui' = FileChanged(ui, file, recordId)
    /\ UNCHANGED <<dataFolder, repo, dirs, files, req, last, pathIn, pathOut,
                   boundsIn, boundsOut>>

\* the promise of dataProvider.uploadPlaylistImage resolves or rejects
UploadSettles ==
    /\ ui.inFlight > 0
    /\ \E ok \in BOOLEAN : ui' = Settled(ui, ok)
    /\ UNCHANGED <<dataFolder, repo, dirs, files, req, last, pathIn, pathOut,
                   boundsIn, boundsOut>>

----------------------------------------------------------------------------
(* Spec: one worker, so that requests are handled one after the other.     *)

NotResolved == [done |-> FALSE, path |-> << >>, ok |-> FALSE]

\* the image_path column is added with the default ''
InitRepo == [id \in PlaylistIDs |-> [OwnerID |-> OwnerOf(id), ImagePath |-> << >>]]

NotFitted == [done |-> FALSE, w |-> 0, h |-> 0]

InitWith(folder, workers, playlistID, bounds) ==
    /\ dataFolder = folder
    /\ repo = InitRepo
    /\ dirs = AncestorsOrSelf(folder)
    /\ files = << >>
    /\ req = [r \in 1..workers |-> IdleReq]
    /\ last = NoOperation
    /\ pathIn = playlistID
    /\ pathOut = NotResolved
    /\ boundsIn = bounds
    /\ boundsOut = NotFitted
    /\ ui = IdleUI

NoBounds == [w |-> 0, h |-> 0]

Init == InitWith(<<"/", "d">>, 1, << >>, NoBounds)

Next ==
    \/ \E r \in Reqs : UploadBegin(r)
    \/ \E r \in Reqs : UploadMkdirAll(r)
    \/ \E r \in Reqs : UploadSave(r)
    \/ \E r \in Reqs : UploadPut(r)
    \/ \E r \in Reqs : UploadCleanup(r)
    \/ \E r \in Reqs : DeleteBegin(r)
    \/ \E r \in Reqs : DeleteRemoveAll(r)
    \/ \E r \in Reqs : DeletePut(r)

Spec == Init /\ [][Next]_vars

----------------------------------------------------------------------------
(* SpecPath: playlistImagePath applied to one id under one data folder.    *)

DataFolders == {<<"/", "d">>, <<"d">>, << >>, <<"/">>}

IdAlphabet == {Separator, ".", "a"}

\* ids that leave the base for a sibling of it, for the base itself, or
\* come back into it, and ids that name an absolute path
SampleIDs ==
    {DotDot \o <<Separator>> \o playlistImageDir \o <<"2">>,
     DotDot \o <<Separator>> \o playlistImageDir \o <<"2", Separator, "a">>,
     DotDot \o <<Separator>> \o playlistImageDir,
     DotDot \o <<Separator>> \o playlistImageDir \o <<Separator, "a">>,
     <<"a", Separator>> \o DotDot \o <<Separator, "a">>,
     <<Separator, "d", Separator>> \o playlistImageDir \o <<Separator, "a">>,
     p1}

\* ids made of letters and digits only
AlnumAlphabet == {"a", "7"}

AlnumIDs ==
    UNION {[1..n -> AlnumAlphabet] : n \in 1..MaxIdLen} \cup {<<"Z">>, <<"a", "Z", "7">>}

IdInputs ==
    UNION {[1..n -> IdAlphabet] : n \in 0..MaxIdLen} \cup SampleIDs \cup AlnumIDs

InitPath ==
    \E folder \in DataFolders, playlistID \in IdInputs :
        InitWith(folder, 1, playlistID, NoBounds)

Resolve ==
    /\ ~pathOut.done
    /\ pathOut' = [done |-> TRUE, path |-> playlistImagePath(pathIn).path,
                   ok |-> playlistImagePath(pathIn).ok]
    /\ UNCHANGED <<dataFolder, repo, dirs, files, req, last, pathIn,
                   boundsIn, boundsOut, ui>>

NextPath == Resolve

SpecPath == InitPath /\ [][NextPath]_vars

----------------------------------------------------------------------------
(* SpecConc: NumReqs requests, each in a goroutine of its own, whose steps *)
(* interleave. The table has a playlist whose id is a path below the       *)
(* directory of another (both accepted by playlistImagePath) and a third   *)
(* one apart; any of them may have an image stored by an earlier upload.   *)

p1x == p1 \o <<Separator, "x">>
p2 == <<"q">>

ConcIDs == {p1, p1x, p2}

ConcUsers == {[ok |-> TRUE, ID |-> "u1", IsAdmin |-> FALSE]}

ConcBodies ==
    {[fileLen |-> 1000, framing |-> 200, hasFile |-> TRUE, decodes |-> TRUE,
      w |-> 640, h |-> 480]}

\* the cover.jpg of an earlier upload of a 2000x1000 image
StoredCover == [complete |-> TRUE, w |-> 1200, h |-> 600]

\* the state left by successful uploads to the playlists of withImage
InitConc ==
    \E withImage \in SUBSET ConcIDs :
        /\ dataFolder = <<"/", "d">>
        /\ repo = [id \in ConcIDs |->
                      [OwnerID |-> OwnerOf(id),
                       ImagePath |-> IF id \in withImage
                                     THEN Join(<<playlistImagePath(id).path, coverName>>)
                                     ELSE << >>]]
        /\ dirs = AncestorsOrSelf(dataFolder)
                    \cup UNION {AncestorsOrSelf(playlistImagePath(id).path) :
                                    id \in withImage}
        /\ files = [f \in {Join(<<playlistImagePath(id).path, coverName>>) :
                                id \in withImage} |-> StoredCover]
        /\ req = [r \in 1..NumReqs |-> IdleReq]
        /\ last = NoOperation
        /\ pathIn = << >>
        /\ pathOut = NotResolved
        /\ boundsIn = NoBounds
        /\ boundsOut = NotFitted
        /\ ui = IdleUI

ConcUploadBegin(r) == UploadBeginFrom(r, {"idle"}, ConcIDs, ConcUsers, ConcBodies)

ConcDeleteBegin(r) == DeleteBeginFrom(r, {"idle"}, ConcIDs, ConcUsers)

NextConc ==
    \/ \E r \in Reqs : ConcUploadBegin(r)
    \/ \E r \in Reqs : UploadMkdirAll(r)
    \/ \E r \in Reqs : UploadSave(r)
    \/ \E r \in Reqs : UploadPut(r)
    \/ \E r \in Reqs : UploadCleanup(r)
    \/ \E r \in Reqs : ConcDeleteBegin(r)
    \/ \E r \in Reqs : DeleteRemoveAll(r)
    \/ \E r \in Reqs : DeletePut(r)

SpecConc == InitConc /\ [][NextConc]_vars

----------------------------------------------------------------------------
(* SpecUI: the component alone, from its first render.                     *)

NextUI ==
    \/ UploadClick
    \/ DialogCancel
    \/ FileChange
    \/ UploadSettles

SpecUI == Init /\ [][NextUI]_vars

----------------------------------------------------------------------------
(* SpecFit: the resize step of the upload applied to one decoded image.    *)

\* widths and heights: the smallest, those around maxImageDimension, and
\* larger ones
ImageSides ==
    (1..3) \cup ((maxImageDimension - 2)..(maxImageDimension + 3))
           \cup {600, 1000, 1800, 2000, 2400, 5000, 65535}

InitFit ==
    \E w \in ImageSides, h \in ImageSides :
        InitWith(<<"/", "d">>, 1, << >>, [w |-> w, h |-> h])

Normalize ==
    /\ ~boundsOut.done
    /\ boundsOut' = [done |-> TRUE, w |-> Resized(boundsIn).w,
                     h |-> Resized(boundsIn).h]
    /\ UNCHANGED <<dataFolder, repo, dirs, files, req, last, pathIn, pathOut,
                   boundsIn, ui>>

NextFit == Normalize

SpecFit == InitFit /\ [][NextFit]_vars

----------------------------------------------------------------------------
(* Properties of playlistImagePath, under SpecPath.                        *)

NonEmpty(e) == e /= << >>

\* the names along a path
Names(path) == SelectSeq(Elements(path, 1, << >>), NonEmpty)

\* the names along {DataFolder}/playlist-images
BaseNames == Names(dataFolder) \o <<playlistImageDir>>

\* path lies strictly below {DataFolder}/playlist-images, name by name
StrictlyBelowBase(path) ==
    LET names == Names(path) IN
    /\ IsRooted(path) = IsRooted(dataFolder)
    /\ Len(names) > Len(BaseNames)
    /\ SubSeq(names, 1, Len(BaseNames)) = BaseNames
    /\ \A i \in 1..Len(names) : names[i] \notin {Dot, DotDot}

HasDotDot(id) == \E i \in 1..Len(Elements(id, 1, << >>)) : Elements(id, 1, << >>)[i] = DotDot
HasSeparator(id) == \E i \in 1..Len(id) : id[i] = Separator
Traversing(id) == HasDotDot(id) \/ IsRooted(id) \/ HasSeparator(id)

\* the id names nothing: it is made of separators, "." and ".." only
NamesNothing(id) == \A i \in 1..Len(Names(id)) : Names(id)[i] \in {Dot, DotDot}

\* C4, as claimed: an id with a ".." segment, a leading separator or an
\* embedded separator is never accepted by playlistImagePath.
C4_TraversingIdsRejected ==
    (pathOut.done /\ Traversing(pathIn)) => ~pathOut.ok

\* C4, amended: for an id with a ".." segment, a leading separator or an
\* embedded separator, playlistImagePath returns ok=false exactly when the
\* joined and cleaned path is not strictly below the base directory; such an
\* id is always rejected when it names nothing, and is accepted when it
\* stays below the base ("a/a", "/a", "a/../a").
C4_TraversingIdsRejectedIffEscaping ==
    (pathOut.done /\ Traversing(pathIn)) =>
        /\ pathOut.ok <=>
              StrictlyBelowBase(Clean(Join(<<dataFolder, playlistImageDir, pathIn>>)))
        /\ NamesNothing(pathIn) => ~pathOut.ok
        /\ pathIn \in {<<"a", Separator, "a">>, <<Separator, "a">>,
                       <<"a", Separator, ".", ".", Separator, "a">>} => pathOut.ok

C4_Witness ==
    /\ pathOut.done
    /\ pathIn = <<"a", Separator, ".", ".", Separator, "a">>
    /\ pathOut.ok
    /\ pathOut.path = ImageBase \o <<Separator, "a">>

\* C5: whatever the id, a directory returned with ok=true lies strictly
\* below {DataFolder}/playlist-images on separator boundaries: it is never
\* the base itself, a sibling whose name starts with the base's, or a path
\* outside it.
C5_AcceptedPathStrictlyBelowBase ==
    (pathOut.done /\ pathOut.ok) => StrictlyBelowBase(pathOut.path)

C5_Witness ==
    /\ pathOut.done
    /\ pathIn = DotDot \o <<Separator>> \o playlistImageDir \o <<Separator, "a">>
    /\ pathOut.ok
    /\ dataFolder = <<"d">>

----------------------------------------------------------------------------
(* Properties of the handlers, under Spec.                                 *)

\* the playlist was fetched and the request carries a user
Admitted(q) == q.pls /= NoPlaylist /\ q.user.ok

OwnerOrAdmin(q) == q.user.ID = q.pls.OwnerID \/ q.user.IsAdmin

\* nothing on disk, and no record, differs from the start of the request
FsUnchanged(q) == dirs = q.dirs0 /\ files = q.files0
RepoUnchanged(q) == repo = q.repo0

\* {DataFolder}/playlist-images/{playlistId} and the cover.jpg in it
ImageDirOf(id) ==
    dataFolder \o <<Separator>> \o playlistImageDir \o <<Separator>> \o id
CoverOf(id) == ImageDirOf(id) \o <<Separator>> \o coverName

\* C1: an Upload by a user who is neither the owner nor an admin ends with
\* 403 Forbidden, having made no call on the disk or the table, with the
\* disk and the record as they were, whatever the body is.
C1_ForbiddenUploadChangesNothing ==
    \A r \in Reqs : LET q == req[r] IN
        (q.pc = "done" /\ q.op = "Upload" /\ Admitted(q) /\ ~OwnerOrAdmin(q)) =>
            /\ q.result.status = 403
            /\ q.calls = {}
            /\ FsUnchanged(q)
            /\ RepoUnchanged(q)

C1_Witness ==
    \E r \in Reqs : LET q == req[r] IN
        /\ q.pc = "done" /\ q.op = "Upload" /\ Admitted(q) /\ ~OwnerOrAdmin(q)
        /\ q.body.decodes /\ ~BodyTooLarge(q.body)
        /\ q.result.status = 403
        /\ repo[q.playlistID].ImagePath = CoverOf(q.playlistID)
        /\ CoverOf(q.playlistID) \in DOMAIN files

\* C2: when Put fails in an Upload (after a Save that succeeded), the
\* handler calls the cleanup os.Remove, answers 500, and the playlist
\* record is as it was when the Upload started.
C2_FailedCommitKeepsRecord ==
    \A r \in Reqs : LET q == req[r] IN
        (q.pc = "done" /\ q.op = "Upload" /\ "Put" \in q.errs) =>
            /\ "Save" \in q.calls \ q.errs
            /\ "Remove" \in q.calls
            /\ q.result = InternalError
            /\ RepoUnchanged(q)
            /\ repo[q.playlistID].ImagePath = q.repo0[q.playlistID].ImagePath

C2_Witness ==
    \E r \in Reqs : LET q == req[r] IN
        /\ q.pc = "done" /\ q.op = "Upload" /\ "Put" \in q.errs
        /\ repo[q.playlistID].ImagePath = CoverOf(q.playlistID)
        /\ q.result.status = 500

Quiescent == \A r \in Reqs : req[r].pc \in {"idle", "done"}

\* C3, as claimed: between operations handled one after the other, any of
\* whose steps may fail, a record with a non-empty ImagePath points to a
\* file that exists below the data folder.
C3_ImagePathPointsToFile ==
    Quiescent =>
        \A id \in DOMAIN repo :
            repo[id].ImagePath /= << >> =>
                /\ repo[id].ImagePath \in DOMAIN files
                /\ Within(repo[id].ImagePath, dataFolder)

\* C6: a Remove by an owner or admin of a playlist whose ImagePath is empty
\* ends with 404, having made no call on the disk and no Put, with the disk
\* and the record as they were.
C6_RemoveWithoutImageNotFound ==
    \A r \in Reqs : LET q == req[r] IN
        (/\ q.pc = "done" /\ q.op = "Remove" /\ Admitted(q) /\ OwnerOrAdmin(q)
         /\ q.repo0[q.playlistID].ImagePath = << >>) =>
            /\ q.result.status = 404
            /\ q.calls = {}
            /\ FsUnchanged(q)
            /\ RepoUnchanged(q)

C6_Witness ==
    \E r \in Reqs : LET q == req[r] IN
        /\ q.pc = "done" /\ q.op = "Remove" /\ Admitted(q) /\ OwnerOrAdmin(q)
        /\ q.repo0[q.playlistID].ImagePath = << >>
        /\ q.result = HttpError(404, "playlist has no custom image")
        /\ ImageDirOf(q.playlistID) \in dirs

\* C7: in a Remove, when os.RemoveAll fails the handler still calls Put
\* with an empty ImagePath; if that Put succeeds the Remove succeeds and the
\* record's ImagePath is empty, whatever is left on disk.
C7_RemoveCommitsAfterFailedDelete ==
    \A r \in Reqs : LET q == req[r] IN
        (q.pc = "done" /\ q.op = "Remove" /\ "RemoveAll" \in q.errs) =>
            /\ "Put" \in q.calls
            /\ q.pls.ImagePath = << >>
            /\ "Put" \notin q.errs =>
                  /\ q.result = Written
                  /\ repo[q.playlistID].ImagePath = << >>

C7_Witness ==
    \E r \in Reqs : LET q == req[r] IN
        /\ q.pc = "done" /\ q.op = "Remove" /\ "RemoveAll" \in q.errs
        /\ "Put" \notin q.errs
        /\ q.result = Written
        /\ repo[q.playlistID].ImagePath = << >>
        /\ CoverOf(q.playlistID) \in DOMAIN files

\* the Upload met no refusal and no failure: owner or admin, a body within
\* the limit whose image decodes, an id a path is derived for, no call failed
CleanUpload(q) ==
    /\ q.pc = "done" /\ q.op = "Upload" /\ Admitted(q) /\ OwnerOrAdmin(q)
    /\ ~BodyTooLarge(q.body) /\ q.body.hasFile /\ q.body.decodes
    /\ q.playlistID = p1
    /\ q.errs = {}

\* C8: an Upload by the owner or an admin, with an image that decodes, a
\* safe id and no failure, succeeds; then the record's ImagePath is
\* {DataFolder}/playlist-images/{playlistId}/cover.jpg and that file holds
\* the uploaded image; over an existing image, the file at the same path is
\* overwritten and ImagePath keeps its value.
C8_UploadStoresCover ==
    \A r \in Reqs : LET q == req[r] IN
        CleanUpload(q) =>
            /\ q.result = Written
            /\ repo[q.playlistID].ImagePath = CoverOf(q.playlistID)
            /\ CoverOf(q.playlistID) \in DOMAIN files
            /\ files[CoverOf(q.playlistID)] =
                  [complete |-> TRUE, w |-> q.img.w, h |-> q.img.h]
            /\ ImageDirOf(q.playlistID) \in dirs
            /\ q.repo0[q.playlistID].ImagePath /= << >> =>
                  repo[q.playlistID].ImagePath = q.repo0[q.playlistID].ImagePath

C8_Witness ==
    \E r \in Reqs : LET q == req[r] IN
        /\ CleanUpload(q)
        /\ q.repo0[q.playlistID].ImagePath = CoverOf(q.playlistID)
        /\ CoverOf(q.playlistID) \in DOMAIN q.files0
        /\ q.files0[CoverOf(q.playlistID)].complete
        /\ q.files0[CoverOf(q.playlistID)] /= files[CoverOf(q.playlistID)]
        /\ q.user.IsAdmin

\* C9: after a Remove that succeeded with no call failing, on a playlist
\* that had an image, the directory {DataFolder}/playlist-images/{playlistId}
\* is gone with all in it, and the record's ImagePath is empty.
C9_RemoveDeletesDirectory ==
    \A r \in Reqs : LET q == req[r] IN
        (/\ q.pc = "done" /\ q.op = "Remove" /\ q.result = Written
         /\ q.errs = {}) =>
            /\ q.repo0[q.playlistID].ImagePath /= << >>
            /\ ImageDirOf(q.playlistID) \notin dirs
            /\ \A f \in DOMAIN files : ~Within(f, ImageDirOf(q.playlistID))
            /\ repo[q.playlistID].ImagePath = << >>

C9_Witness ==
    \E r \in Reqs : LET q == req[r] IN
        /\ q.pc = "done" /\ q.op = "Remove" /\ q.result = Written
        /\ q.errs = {}
        /\ ImageDirOf(q.playlistID) \in q.dirs0
        /\ CoverOf(q.playlistID) \in DOMAIN q.files0
        /\ ImageDirOf(q.playlistID) \notin dirs

\* C10: a Remove that comes right after a successful Remove of the same
\* playlist (from an owner or admin, the playlist fetched) ends with 404 and
\* changes neither the disk nor the record.
C10_SecondRemoveNotFound ==
    \A r \in Reqs : LET q == req[r] IN
        (/\ q.pc = "done" /\ q.op = "Remove" /\ q.afterRemove
         /\ Admitted(q) /\ OwnerOrAdmin(q)) =>
            /\ q.result = HttpError(404, "playlist has no custom image")
            /\ q.calls = {}
            /\ FsUnchanged(q)
            /\ RepoUnchanged(q)

C10_Witness ==
    \E r \in Reqs : LET q == req[r] IN
        /\ q.pc = "done" /\ q.op = "Remove" /\ q.afterRemove
        /\ Admitted(q) /\ OwnerOrAdmin(q)
        /\ q.result.status = 404
        /\ last = [op |-> "Remove", playlistID |-> q.playlistID, status |-> 404]


\* C11: an Upload whose bytes no decoder accepts ends with 400 "invalid
\* image file", having made no call on the disk or the table: no directory
\* is created, an existing cover.jpg is untouched, the record is as it was.
C11_UndecodableUploadChangesNothing ==
    \A r \in Reqs : LET q == req[r] IN
        (/\ q.pc = "done" /\ q.op = "Upload" /\ Admitted(q) /\ OwnerOrAdmin(q)
         /\ ~BodyTooLarge(q.body) /\ q.body.hasFile /\ ~q.body.decodes) =>
            /\ q.result = HttpError(400, "invalid image file")
            /\ q.calls = {}
            /\ FsUnchanged(q)
            /\ RepoUnchanged(q)

C11_Witness ==
    \E r \in Reqs : LET q == req[r] IN
        /\ q.pc = "done" /\ q.op = "Upload" /\ Admitted(q) /\ OwnerOrAdmin(q)
        /\ q.body.hasFile /\ ~q.body.decodes
        /\ q.result = HttpError(400, "invalid image file")
        /\ repo[q.playlistID].ImagePath = CoverOf(q.playlistID)
        /\ CoverOf(q.playlistID) \in DOMAIN files
        /\ files[CoverOf(q.playlistID)].complete

\* C12: when os.MkdirAll or imaging.Save fails in an Upload, the Upload
\* ends with 500, Put is not called, and the playlist record is as it was.
C12_FailedSaveCommitsNothing ==
    \A r \in Reqs : LET q == req[r] IN
        (/\ q.pc = "done" /\ q.op = "Upload"
         /\ ("MkdirAll" \in q.errs \/ "Save" \in q.errs)) =>
            /\ q.result = InternalError
            /\ "Put" \notin q.calls
            /\ RepoUnchanged(q)

C12_Witness ==
    \E r \in Reqs : LET q == req[r] IN
        /\ q.pc = "done" /\ q.op = "Upload" /\ "Save" \in q.errs
        /\ q.result = InternalError
        /\ CoverOf(q.playlistID) \in DOMAIN files
        /\ ~files[CoverOf(q.playlistID)].complete
        /\ repo[q.playlistID].ImagePath = << >>

\* C13: a Remove from a user who is neither the owner nor an admin ends
\* with 403, and one with no user in the context with 401, whether or not
\* the playlist has an image: the permission check comes before the check
\* of ImagePath, before os.RemoveAll and before Put, none of which is
\* reached; the disk and the record are as they were.
C13_UnauthorizedRemoveChangesNothing ==
    \A r \in Reqs : LET q == req[r] IN
        (/\ q.pc = "done" /\ q.op = "Remove" /\ q.pls /= NoPlaylist
         /\ (~q.user.ok \/ ~OwnerOrAdmin(q))) =>
            /\ q.result.status = IF q.user.ok THEN 403 ELSE 401
            /\ q.calls = {}
            /\ q.dir = << >>
            /\ FsUnchanged(q)
            /\ RepoUnchanged(q)

C13_Witness ==
    \E r \in Reqs : LET q == req[r] IN
        /\ q.pc = "done" /\ q.op = "Remove" /\ q.pls /= NoPlaylist
        /\ q.user.ok /\ ~OwnerOrAdmin(q)
        /\ q.result.status = 403
        /\ repo[q.playlistID].ImagePath = CoverOf(q.playlistID)
        /\ CoverOf(q.playlistID) \in DOMAIN files


\* C14: for every non-empty id made of letters and digits only,
\* playlistImagePath returns ok = true and the directory
\* <DataFolder>/playlist-images/<id>, which is strictly below the base, and
\* two such ids that differ get two directories that differ.
C14_AlnumIdsResolveToOwnDirectory ==
    (pathOut.done /\ pathIn \in AlnumIDs) =>
        /\ pathOut.ok
        /\ pathOut.path = ImageBase \o <<Separator>> \o pathIn
        /\ StrictlyBelowBase(pathOut.path)
        /\ \A other \in AlnumIDs \ {pathIn} :
              /\ playlistImagePath(other).ok
              /\ playlistImagePath(other).path /= pathOut.path

C14_Witness ==
    /\ pathOut.done /\ pathIn = <<"a", "Z", "7">> /\ pathOut.ok
    /\ dataFolder = <<"/", "d">>
    /\ pathOut.path = <<"/", "d", "/">> \o playlistImageDir \o <<"/", "a", "Z", "7">>


\* the larger of two numbers
Larger(a, b) == IF a >= b THEN a ELSE b

\* |a - b|
Distance(a, b) == IF a >= b THEN a - b ELSE b - a

\* C15: an image whose larger side is at most maxImageDimension is stored
\* with the bounds it has; one whose larger side exceeds maxImageDimension
\* is stored with its larger side equal to maxImageDimension and its other
\* side within one pixel of the same ratio applied to it (2000x1000 becomes
\* 1200x600); in both cases no side of the result exceeds maxImageDimension
\* and none is below one pixel.
C15_ResizeBoundsTheImage ==
    boundsOut.done =>
        LET w == boundsIn.w
            h == boundsIn.h
            ow == boundsOut.w
            oh == boundsOut.h
        IN  /\ Larger(w, h) <= maxImageDimension => (ow = w /\ oh = h)
            /\ Larger(w, h) > maxImageDimension =>
                  /\ Larger(ow, oh) = maxImageDimension
                  /\ w >= h => (/\ ow = maxImageDimension
                                /\ Distance(oh * w, maxImageDimension * h) <= w)
                  /\ h >= w => (/\ oh = maxImageDimension
                                /\ Distance(ow * h, maxImageDimension * w) <= h)
            /\ ow >= 1 /\ oh >= 1
            /\ ow <= maxImageDimension /\ oh <= maxImageDimension
            /\ (w = 2000 /\ h = 1000) => (ow = 1200 /\ oh = 600)

C15_Witness ==
    /\ boundsOut.done
    /\ boundsIn = [w |-> 1000, h |-> 2000]
    /\ boundsOut.w = 600 /\ boundsOut.h = 1200


\* the id is one that playlistImagePath refuses
Unsafe(id) == ~playlistImagePath(id).ok

C17_CleanupRemovesDirectory ==
    \A r \in Reqs : LET q == req[r] IN
        (q.pc = "done" /\ q.op = "Upload" /\ "Put" \in q.errs) =>
            /\ q.result = InternalError
            /\ ImageDirOf(q.playlistID) \notin dirs
            /\ CoverOf(q.playlistID) \notin DOMAIN files

\* C17, amended: the cleanup that follows a failed Put is os.Remove of
\* cover.jpg alone. The playlist's image directory stays on disk; cover.jpg
\* is gone when os.Remove succeeded and is still there when it failed; no
\* other file is touched; and the response is the 500 of the failed Put in
\* both cases, the error of os.Remove being dropped.
C17_CleanupRemovesFileOnly ==
    \A r \in Reqs : LET q == req[r] IN
        (q.pc = "done" /\ q.op = "Upload" /\ "Put" \in q.errs) =>
            /\ q.result = InternalError
            /\ "Remove" \in q.calls
            /\ q.dir = ImageDirOf(q.playlistID)
            /\ q.destPath = CoverOf(q.playlistID)
            /\ ImageDirOf(q.playlistID) \in dirs
            /\ q.dirs0 \subseteq dirs
            /\ "Remove" \notin q.errs => CoverOf(q.playlistID) \notin DOMAIN files
            /\ "Remove" \in q.errs => CoverOf(q.playlistID) \in DOMAIN files
            /\ \A f \in DOMAIN q.files0 \ {CoverOf(q.playlistID)} :
                  f \in DOMAIN files /\ files[f] = q.files0[f]

C17_Witness ==
    \E r \in Reqs : LET q == req[r] IN
        /\ q.pc = "done" /\ q.op = "Upload" /\ "Put" \in q.errs
        /\ "Remove" \in q.calls /\ "Remove" \notin q.errs
        /\ ImageDirOf(q.playlistID) \in dirs
        /\ ImageDirOf(q.playlistID) \notin q.dirs0
        /\ CoverOf(q.playlistID) \notin DOMAIN files


\* C20, as claimed: an Upload whose image is larger than maxUploadSize
\* bytes ends with "file too large" before anything is decoded, written or
\* committed, and one whose image is at most maxUploadSize bytes long,
\* exactly maxUploadSize included (the largest file the client sends), is
\* not refused for its size.
C20_SizeLimitIsOnTheImage ==
    \A r \in Reqs : LET q == req[r] IN
        (q.pc = "done" /\ q.op = "Upload" /\ Admitted(q) /\ OwnerOrAdmin(q)) =>
            /\ q.body.fileLen > maxUploadSize =>
                  /\ q.result = HttpError(400, "file too large (max 5MB)")
                  /\ q.calls = {}
                  /\ FsUnchanged(q)
                  /\ RepoUnchanged(q)
            /\ (q.body.hasFile /\ ~ClientRejectsSize(q.body)
                /\ q.body.fileLen <= maxUploadSize) =>
                  q.result /= HttpError(400, "file too large (max 5MB)")

----------------------------------------------------------------------------
(* Properties of interleaved requests, under SpecConc.                     *)

\* the directory and the cover.jpg the handlers derive for a playlist
DirOf(id) == playlistImagePath(id).path
FileOf(id) == Join(<<DirOf(id), coverName>>)

\* the step leaves the record of id, its directory and its cover.jpg alone
Untouched(id, dir, file) ==
    /\ repo'[id] = repo[id]
    /\ (dir \in dirs') = (dir \in dirs)
    /\ (file \in DOMAIN files') = (file \in DOMAIN files)
    /\ file \in DOMAIN files => files'[file] = files[file]

\* neither directory is the other or lies below it
Apart(dirA, dirB) == ~Within(dirA, dirB) /\ ~Within(dirB, dirA)

\* C18, as claimed: a step of a request on playlist A leaves the record,
\* the image directory and the cover.jpg of every other playlist B alone,
\* whenever playlistImagePath accepts both ids.
C18_OtherPlaylistsUntouched ==
    [][\A r \in Reqs :
          req'[r] /= req[r] =>
              LET a == req'[r].playlistID
                  ra == playlistImagePath(a)
              IN  \A b \in DOMAIN repo \ {a} :
                      LET rb == playlistImagePath(b) IN
                      (ra.ok /\ rb.ok) =>
                          Untouched(b, rb.path, Join(<<rb.path, coverName>>))]_vars

\* C18, amended: a step of a request on playlist A leaves the record, the
\* image directory and the cover.jpg of every other playlist B alone,
\* whenever playlistImagePath accepts both ids and the directory of neither
\* is the directory of the other or lies below it.
C18_PlaylistsApartUntouched ==
    [][\A r \in Reqs :
          req'[r] /= req[r] =>
              LET a == req'[r].playlistID
                  ra == playlistImagePath(a)
              IN  \A b \in DOMAIN repo \ {a} :
                      LET rb == playlistImagePath(b) IN
                      (ra.ok /\ rb.ok /\ Apart(ra.path, rb.path)) =>
                          Untouched(b, rb.path, Join(<<rb.path, coverName>>))]_vars

\* a Remove of p1 has deleted its directory while an Upload to the playlist
\* apart from it is between its Save and its Put, its cover.jpg on disk
C18_Witness ==
    \E r, s \in Reqs :
        /\ req[r].op = "Remove" /\ req[r].playlistID = p1
        /\ "RemoveAll" \in req[r].calls /\ "RemoveAll" \notin req[r].errs
        /\ DirOf(p1) \in req[r].dirs0 /\ DirOf(p1) \notin dirs
        /\ req[s].op = "Upload" /\ req[s].playlistID = p2 /\ req[s].pc = "put"
        /\ Apart(DirOf(p1), DirOf(p2))
        /\ FileOf(p2) \in DOMAIN files


\* C19, as claimed: when the requests handled at the same time are Uploads
\* to one playlist and all have returned, one of them with success, the
\* record's ImagePath is the cover.jpg of the playlist and that file is on
\* disk, whatever happened to the others.
C19_CommittedUploadKeepsFile ==
    \A id \in DOMAIN repo :
        (/\ \A r \in Reqs : /\ req[r].pc = "done" /\ req[r].op = "Upload"
                            /\ req[r].playlistID = id
         /\ \E r \in Reqs : req[r].result = Written) =>
            /\ repo[id].ImagePath = CoverOf(id)
            /\ CoverOf(id) \in DOMAIN files


----------------------------------------------------------------------------
(* Properties of the PlaylistDetails component, under SpecUI.              *)

\* the last thing the component did was to handle a change of the file input
AfterChange ==
    ui.event \in {"ignored", "invalidImageType", "imageTooLarge", "sent"}

\* C21: uploading is true exactly while an upload is in flight, and there
\* is at most one. It becomes true in the turn that sends the request, from
\* false, for a file whose type starts with "image/" and whose size is at
\* most 5 MiB; it is false after the request has settled, with success or
\* with an error; and a change of the file input with a file of another
\* type or of more than 5 MiB sends no request and leaves uploading false.
C21_UploadingOnlyWhileInFlight ==
    /\ ui.uploading = (ui.inFlight > 0)
    /\ ui.inFlight <= 1
    /\ ui.event = "sent" =>
          /\ ~ui.before.uploading /\ ui.before.inFlight = 0
          /\ ui.uploading /\ ui.inFlight = 1
          /\ ui.file.present /\ ui.recordId /= << >>
          /\ SubSeq(ui.file.type, 1, 6) = ImagePrefix
          /\ ui.file.fileLen <= maxUploadSize
    /\ ui.event \in {"updated", "imageUploadError"} =>
          /\ ui.before.uploading /\ ui.before.inFlight = 1
          /\ ~ui.uploading /\ ui.inFlight = 0
    /\ (/\ AfterChange
        /\ \/ ~ui.file.present
           \/ Len(ui.file.type) < 6
           \/ SubSeq(ui.file.type, 1, 6) /= ImagePrefix
           \/ ui.file.fileLen > maxUploadSize) =>
          /\ ui.event /= "sent"
          /\ ~ui.uploading /\ ~ui.before.uploading
          /\ ui.inFlight = 0 /\ ui.before.inFlight = 0

\* an upload of a file of exactly 5 MiB was sent and has failed
C21_Witness ==
    /\ ui.event = "imageUploadError"
    /\ ui.file.present /\ ui.file.fileLen = maxUploadSize
    /\ ui.before.uploading /\ ~ui.uploading
    /\ ui.inFlight = 0

====
